---- MODULE Spec2Model ----
(***************************************************************************)
(* Model of natparks/build_np_pdf_index.py: the fetch-and-catalog pipeline *)
(* (slugify, secure_filename, download_one, build_index.process_row and    *)
(* the worker pool of build_index) over a small file system.               *)
(*                                                                         *)
(* Strings are sequences of one-character strings.  A file name is a       *)
(* record of its parts (see FileName).  The directory maps names to        *)
(* inodes and an open file keeps its inode, as on POSIX.                   *)
(***************************************************************************)
EXTENDS Integers, Sequences, FiniteSets, TLC

(* ------------------------------ bounds --------------------------------- *)
MaxRows == 2        \* longest input row list
MaxWorkers == 2     \* largest --workers value
NChunks == 2        \* chunks in one HTTP response body
MaxPre == 1         \* earlier runs that have left files in the store
MaxStrLen == 3      \* slugify: every input string up to this length
MaxExtra == 2       \* slugify: long inputs exceed the slug limit by up to this
MaxPat == 3         \* slugify: longest pattern repeated into a long input
MaxSuffix == 3      \* secure_filename: largest suffix in an existing-name set

(* --------------------------- characters -------------------------------- *)
LowerLetters == {"a", "b", "t", "p", "d", "f", "m", "i", "l", "e"}
UpperLetters == {"A", "B", "T", "P", "D", "F"}
Digits == {"2"}
WordChars == LowerLetters \cup UpperLetters \cup Digits \cup {"_"}
Spaces == {" "}
Hyphen == "-"

Lower(c) ==
    CASE c = "A" -> "a" [] c = "B" -> "b" [] c = "T" -> "t"
      [] c = "P" -> "p" [] c = "D" -> "d" [] c = "F" -> "f"
      [] OTHER -> c

\* F(x), with x evaluated once
Let(x, F(_)) == CHOOSE y \in { F(v) : v \in {x} } : TRUE

LowerStr(s) == Let(s, LAMBDA v : [k \in 1..Len(v) |-> Lower(v[k])])

Min(I) == CHOOSE k \in I : \A l \in I : k <= l

Max(I) == CHOOSE k \in I : \A l \in I : k >= l

LStrip(s, C) ==
    Let(s, LAMBDA v :
    Let({ k \in 1..Len(v) : v[k] \notin C }, LAMBDA I :
        IF I = {} THEN <<>> ELSE SubSeq(v, Min(I), Len(v))))

RStrip(s, C) ==
    Let(s, LAMBDA v :
    Let({ k \in 1..Len(v) : v[k] \notin C }, LAMBDA I :
        IF I = {} THEN <<>> ELSE SubSeq(v, 1, Max(I))))

Strip(s, C) == RStrip(LStrip(s, C), C)

\* re.sub(C+, rep, s), rep one character long: every maximal run of
\* characters of C becomes rep
SubRuns(s, C, rep) ==
    Let(s, LAMBDA v :
    Let(SelectSeq([k \in 1..Len(v) |-> k],
                  LAMBDA k : v[k] \notin C \/ k = 1 \/ v[k - 1] \notin C),
        LAMBDA kept :
        [j \in 1..Len(kept) |-> IF v[kept[j]] \in C THEN rep[1] ELSE v[kept[j]]]))

\* re.sub(-{2,}, "-", s) has the same effect as collapsing every run of "-"
Normalize(c) ==
    CASE c = "rsquo" -> "'" [] c = "ndash" -> "-" [] c = "mdash" -> "-"
      [] OTHER -> c

NormalizeStr(s) == Let(s, LAMBDA v : [k \in 1..Len(v) |-> Normalize(v[k])])

SlugMax == 80

Take(s, n) == Let(s, LAMBDA v : SubSeq(v, 1, IF Len(v) < n THEN Len(v) ELSE n))

Or(s, dflt) == Let(s, LAMBDA v : IF v = <<>> THEN dflt ELSE v)

KeepSlugChar(c) == c \in WordChars \cup Spaces \cup {Hyphen}

\* slugify without the collapse of repeated hyphens
slugify_uncollapsed(value) ==
    LET v1 == LowerStr(Strip(value, Spaces))
        v2 == NormalizeStr(v1)
        v3 == SelectSeq(v2, KeepSlugChar)
        v4 == SubRuns(v3, Spaces, <<" ">>)
        v5 == SubRuns(Strip(v4, Spaces), Spaces, <<Hyphen>>)
    IN  Or(Take(Strip(v5, {Hyphen}), SlugMax), <<"f", "i", "l", "e">>)

slugify(value) ==
    LET v1 == LowerStr(Strip(value, Spaces))
        v2 == NormalizeStr(v1)
        v3 == SelectSeq(v2, KeepSlugChar)
        v4 == SubRuns(v3, Spaces, <<" ">>)
        v5 == SubRuns(Strip(v4, Spaces), Spaces, <<Hyphen>>)
        v6 == SubRuns(v5, {Hyphen}, <<Hyphen>>)
    IN  Or(Take(Strip(v6, {Hyphen}), SlugMax), <<"f", "i", "l", "e">>)

(* ------------------------------- URLs ---------------------------------- *)
\* A URL is [host, rest]: "https://" host rest, rest empty or starting "/".
RECURSIVE UpTo(_, _)
UpTo(s, C) ==
    Let(s, LAMBDA v :
        IF v = <<>> \/ Head(v) \in C THEN <<>> ELSE <<Head(v)>> \o UpTo(Tail(v), C))

\* the part of s after its last c, all of s when it has none
AfterLast(s, c) ==
    Let(s, LAMBDA v :
    Let({ k \in 1..Len(v) : v[k] = c }, LAMBDA I :
        IF I = {} THEN v ELSE SubSeq(v, Max(I) + 1, Len(v))))

\* urlparse(url).path: no query, no fragment, no ;params of the last segment
UrlPath(url) ==
    Let(UpTo(url.rest, {"?", "#"}), LAMBDA p :
    Let(AfterLast(p, "/"), LAMBDA last :
        SubSeq(p, 1, Len(p) - Len(last)) \o UpTo(last, {";"})))

Basename(p) == AfterLast(p, "/")

\* re.sub(r"\.pdf($|\?.*)", "", s, flags=re.I)
PdfAt(s, k) ==
    /\ k + 3 <= Len(s)
    /\ LowerStr(SubSeq(s, k, k + 3)) = <<".", "p", "d", "f">>
    /\ (k + 3 = Len(s) \/ s[k + 4] = "?")

StripPdf(s) ==
    Let(s, LAMBDA v :
    Let({ k \in 1..Len(v) : PdfAt(v, k) }, LAMBDA I :
        IF I = {} THEN v ELSE SubSeq(v, 1, Min(I) - 1)))

\* hashlib.sha256(url)[:8]: modelled as an injective function of the URL
UrlHash(url) == url

(* ---------------------------- file names ------------------------------- *)
\* f"{park_slug}__{base_slug}__{h}.pdf" (i = 0) or f"...__{h}-{i}.pdf",
\* ext "pdf.part" for the temporary sibling
FileName(park_slug, base_slug, h, i, ext) ==
    [park_slug |-> park_slug, base_slug |-> base_slug, h |-> h, i |-> i, ext |-> ext]

Guess(park, url) ==
    LET base == Or(Basename(UrlPath(url)), <<"m", "a", "p", ".", "p", "d", "f">>)
        base_slug == Or(slugify(StripPdf(base)), <<"m", "a", "p">>)
    IN  FileName(slugify(park), base_slug, UrlHash(url), 0, "pdf")

Alt(guess, i) == [guess EXCEPT !.i = i]

\* the first integer from `from` on whose suffixed name is free
FirstFree(guess, existing, from) ==
    Min({ j \in from..(Cardinality(existing) + from) : Alt(guess, j) \notin existing })

\* secure_filename without the collision check
secure_filename_unchecked(park, url, existing) == Guess(park, url)

\* secure_filename with a suffix search that starts at 2
secure_filename_from_two(park, url, existing) ==
    Let(Guess(park, url), LAMBDA guess :
        IF guess \in existing THEN Alt(guess, FirstFree(guess, existing, 2)) ELSE guess)

secure_filename(park, url, existing) ==
    Let(Guess(park, url), LAMBDA guess :
        IF guess \in existing THEN Alt(guess, FirstFree(guess, existing, 1)) ELSE guess)

\* dest.with_suffix(dest.suffix + ".part")
TmpOf(dest) == [dest EXCEPT !.ext = "pdf.part"]

(* ------------------------------ inputs --------------------------------- *)
Park1 == <<"A", " ", "B">>
Park2 == <<"a", "-", "b">>
Url1 == [host |-> "x", rest |-> <<"/", "T", ".", "p", "d", "f">>]
Url2 == [host |-> "x", rest |-> <<>>]
NoUrl == [host |-> "", rest |-> <<>>]

\* Park1 and Park2 slugify to the same text; Url2 has no path
RowUniverse ==
    { [park |-> Park1, url |-> Url1],
      [park |-> Park2, url |-> Url1],
      [park |-> Park1, url |-> Url2] }

RowLists == UNION { [1..n -> RowUniverse] : n \in 1..MaxRows }

(* --------------------------- file contents ----------------------------- *)
\* The body served for a URL: NChunks chunks, each identified by (url, k)
Chunk(url, k) == [u |-> url, k |-> k]
Hole == [u |-> NoUrl, k |-> 0]
Response(url) == [k \in 1..NChunks |-> Chunk(url, k)]

\* f.write(chunk) at file position off (0-based); a write past the end of a
\* file that was truncated meanwhile leaves a hole
WriteAt(content, off, c) ==
    [k \in 1..(IF Len(content) > off + 1 THEN Len(content) ELSE off + 1) |->
        IF k = off + 1 THEN c
        ELSE IF k <= Len(content) THEN content[k] ELSE Hole]

\* hasher.hexdigest(): injective in the chunks hashed; EmptyStr is ""
EmptyStr == <<>>
HexDigest(hashed) == <<hashed>>

NoName == FileName(<<>>, <<>>, NoUrl, 0, "")
NoInode == [name |-> NoName, by |-> 0]

\* The stores a run may start from: what n earlier runs over one row have
\* left (each run adds the next free name of the row), the last of them
\* possibly failed and leaving its temp file
InitNames(w, n) ==
    { Alt(Guess(w.park, w.url), i) : i \in 0..(n - 1) }

InitStores ==
    UNION { { InitNames(w, n),
              InitNames(w, n) \cup {TmpOf(Alt(Guess(w.park, w.url), n))} } :
            w \in RowUniverse, n \in 0..MaxPre }

InitInode(n) == [name |-> n, by |-> 0]

\* a stored document is complete, an abandoned temp file is a prefix
InitContent(n) ==
    IF n.ext = "pdf" THEN Response(n.h) ELSE SubSeq(Response(n.h), 1, NChunks - 1)

(* ------------------------------- state --------------------------------- *)
VARIABLES
    rows,            \* build_index argument
    force,           \* build_index argument
    workers,         \* build_index argument
    existing_names,  \* set(os.listdir(pdf_dir)) taken at the start
    dir,             \* pdf_dir: name -> inode
    data,            \* inode -> content
    seen_keys,
    items,
    LOCK,            \* 0 = free, r = held by the worker of row r
    pc,              \* position of process_row(rows[r])
    filename,        \* process_row local
    res,             \* process_row locals (ok, size, sha256_hex)
    fd,              \* download_one: inode of the open temp file
    size,            \* download_one local
    hashed,          \* download_one: chunks fed to hasher
    fetched,         \* number of download_one calls made for row r
    pc_main,         \* build_index: "running" or "returned"
    total_items,     \* index["total_items"]
    csv_fieldnames,  \* header of the input CSV
    main_pc,         \* main: "read", "build", "done" or "raised"
    json_file,       \* content of json_path
    call,            \* a function under test and its arguments
    ret              \* its result

vars == << rows, force, workers, existing_names, dir, data, seen_keys, items,
           LOCK, pc, filename, res, fd, size, hashed, fetched, pc_main,
           total_items, csv_fieldnames, main_pc, json_file, call, ret >>

\* what the steps of build_index leave alone
mvars == << csv_fieldnames, main_pc, json_file, call, ret >>

Idx == 1..Len(rows)
Key(r) == << rows[r].park, rows[r].url >>

\* download_one reporting the bytes counted so far on failure
FailResultKeepsSize(sz) == [ok |-> FALSE, size |-> sz, sha |-> EmptyStr]

FailResult(sz) == [ok |-> FALSE, size |-> 0, sha |-> EmptyStr]

(* ------------------------------- main --------------------------------- *)
Expected == {"park", "state", "pdf_url"}

\* headers with one extra column and any of the required ones
HeaderSets == { S \cup {"notes"} : S \in SUBSET Expected }

\* the catalog file before the run (absent or from an earlier run)
OldJson == [total_items |-> -1, items |-> <<>>]

NoCall == [fn |-> "none"]
NoRet == [done |-> FALSE]

Init ==
    /\ csv_fieldnames \in HeaderSets
    /\ main_pc = "read"
    /\ json_file = OldJson
    /\ call = NoCall
    /\ ret = NoRet
    /\ rows \in RowLists
    /\ force \in BOOLEAN
    /\ workers \in {1, MaxWorkers}
    /\ existing_names \in InitStores
    /\ dir = [n \in existing_names |-> InitInode(n)]
    /\ data = [ino \in { InitInode(n) : n \in existing_names } |-> InitContent(ino.name)]
    /\ seen_keys = {}
    /\ items = <<>>
    /\ LOCK = 0
    /\ pc = [r \in Idx |-> "idle"]
    /\ filename = [r \in Idx |-> NoName]
    /\ res = [r \in Idx |-> FailResult(0)]
    /\ fd = [r \in Idx |-> NoInode]
    /\ size = [r \in Idx |-> 0]
    /\ hashed = [r \in Idx |-> <<>>]
    /\ fetched = [r \in Idx |-> 0]
    /\ pc_main = "running"
    /\ total_items = 0

\* a header check that forgets the state column
HeaderOkWithoutState(fieldnames) == {"park", "pdf_url"} \subseteq fieldnames

\* expected.issubset(set(reader.fieldnames or []))
HeaderOk(fieldnames) == Expected \subseteq fieldnames

\* read_csv_rows: ValueError when a required column is missing, otherwise
\* main goes on to build_index(rows, ...)
ReadCsv ==
    /\ main_pc = "read"
    /\ main_pc' = IF HeaderOk(csv_fieldnames) THEN "build" ELSE "raised"
    /\ UNCHANGED << rows, force, workers, existing_names, dir, data, seen_keys,
                    items, LOCK, pc, filename, res, fd, size, hashed, fetched,
                    pc_main, total_items, csv_fieldnames, json_file, call, ret >>

\* json.dump(index, f) after build_index has returned
WriteJson ==
    /\ main_pc = "build"
    /\ pc_main = "returned"
    /\ json_file' = [total_items |-> total_items, items |-> items]
    /\ main_pc' = "done"
    /\ UNCHANGED << rows, force, workers, existing_names, dir, data, seen_keys,
                    items, LOCK, pc, filename, res, fd, size, hashed, fetched,
                    pc_main, total_items, csv_fieldnames, call, ret >>

(* ----------------------------- the pool -------------------------------- *)
Active == { r \in Idx : pc[r] \notin {"idle", "done"} }

\* workers <= 1: the for loop on the calling thread; otherwise the pool's
\* threads take the submitted rows in order, at most `workers` at a time
\* rows started without regard to order or to the number of workers
CanStartAnyOrder(r) ==
    /\ main_pc = "build"
    /\ pc[r] = "idle"

CanStart(r) ==
    /\ main_pc = "build"
    /\ pc[r] = "idle"
    /\ \A q \in 1..(r - 1) : pc[q] # "idle"
    /\ Cardinality(Active) < (IF workers <= 1 THEN 1 ELSE workers)

(* --------------------------- process_row ------------------------------- *)
\* process_row(rows[r]) begins: the test of the dedup key
CheckSeen(r) ==
    /\ CanStart(r)
    /\ pc' = [pc EXCEPT ![r] = IF Key(r) \in seen_keys THEN "done" ELSE "add"]
    /\ UNCHANGED << rows, force, workers, existing_names, dir, data, seen_keys,
                    items, LOCK, filename, res, fd, size, hashed, fetched,
                    pc_main, total_items >>
    /\ UNCHANGED mvars

AddSeen(r) ==
    /\ pc[r] = "add"
    /\ seen_keys' = seen_keys \cup {Key(r)}
    /\ filename' = [filename EXCEPT
                      ![r] = secure_filename(rows[r].park, rows[r].url, existing_names)]
    /\ pc' = [pc EXCEPT ![r] = "exists"]
    /\ UNCHANGED << rows, force, workers, existing_names, dir, data, items,
                    LOCK, res, fd, size, hashed, fetched, pc_main, total_items >>
    /\ UNCHANGED mvars

\* the existence test without the force flag
ExistsIgnoringForce(r) ==
    /\ pc[r] = "exists"
    /\ pc' = [pc EXCEPT ![r] = IF filename[r] \in DOMAIN dir THEN "stat" ELSE "get"]
    /\ UNCHANGED << rows, force, workers, existing_names, dir, data, seen_keys,
                    items, LOCK, filename, res, fd, size, hashed, fetched,
                    pc_main, total_items >>
    /\ UNCHANGED mvars

Exists(r) ==
    /\ pc[r] = "exists"
    /\ pc' = [pc EXCEPT ![r] =
                IF filename[r] \in DOMAIN dir /\ ~force THEN "stat" ELSE "get"]
    /\ UNCHANGED << rows, force, workers, existing_names, dir, data, seen_keys,
                    items, LOCK, filename, res, fd, size, hashed, fetched,
                    pc_main, total_items >>
    /\ UNCHANGED mvars

Stat(r) ==
    /\ pc[r] = "stat"
    /\ res' = [res EXCEPT ![r] = [ok |-> TRUE,
                                  size |-> Len(data[dir[filename[r]]]),
                                  sha |-> EmptyStr]]
    /\ pc' = [pc EXCEPT ![r] = "acquire"]
    /\ UNCHANGED << rows, force, workers, existing_names, dir, data, seen_keys,
                    items, LOCK, filename, fd, size, hashed, fetched, pc_main,
                    total_items >>
    /\ UNCHANGED mvars

(* --------------------------- download_one ------------------------------ *)
\* session.get and raise_for_status succeed
Get(r) ==
    /\ pc[r] = "get"
    /\ fetched' = [fetched EXCEPT ![r] = @ + 1]
    /\ pc' = [pc EXCEPT ![r] = "open"]
    /\ UNCHANGED << rows, force, workers, existing_names, dir, data, seen_keys,
                    items, LOCK, filename, res, fd, size, hashed, pc_main,
                    total_items >>
    /\ UNCHANGED mvars

\* session.get raises, or the status is not 2xx
GetFail(r) ==
    /\ pc[r] = "get"
    /\ fetched' = [fetched EXCEPT ![r] = @ + 1]
    /\ res' = [res EXCEPT ![r] = FailResult(size[r])]
    /\ pc' = [pc EXCEPT ![r] = "acquire"]
    /\ UNCHANGED << rows, force, workers, existing_names, dir, data, seen_keys,
                    items, LOCK, filename, fd, size, hashed, pc_main,
                    total_items >>
    /\ UNCHANGED mvars

\* tmp.open("wb"): creates the temp file or truncates the one of that name
Open(r) ==
    /\ pc[r] = "open"
    /\ LET tmp == TmpOf(filename[r])
           ino == IF tmp \in DOMAIN dir THEN dir[tmp] ELSE [name |-> tmp, by |-> r]
       IN  /\ dir' = (tmp :> ino) @@ dir
           /\ data' = (ino :> <<>>) @@ data
           /\ fd' = [fd EXCEPT ![r] = ino]
    /\ size' = [size EXCEPT ![r] = 0]
    /\ hashed' = [hashed EXCEPT ![r] = <<>>]
    /\ pc' = [pc EXCEPT ![r] = "chunk"]
    /\ UNCHANGED << rows, force, workers, existing_names, seen_keys, items,
                    LOCK, filename, res, fetched, pc_main, total_items >>
    /\ UNCHANGED mvars

\* one iteration of the iter_content loop; after the last chunk the file is
\* closed
WriteChunk(r) ==
    /\ pc[r] = "chunk"
    /\ LET c == Response(rows[r].url)[size[r] + 1]
       IN  /\ data' = [data EXCEPT ![fd[r]] = WriteAt(@, size[r], c)]
           /\ hashed' = [hashed EXCEPT ![r] = Append(@, c)]
    /\ size' = [size EXCEPT ![r] = @ + 1]
    /\ pc' = [pc EXCEPT ![r] = IF size[r] + 1 = NChunks THEN "replace" ELSE "chunk"]
    /\ UNCHANGED << rows, force, workers, existing_names, dir, seen_keys, items,
                    LOCK, filename, res, fd, fetched, pc_main, total_items >>
    /\ UNCHANGED mvars

RemoveName(d, n) == [m \in DOMAIN d \ {n} |-> d[m]]

\* tmp.replace(dest); raises when the temp name is gone
Replace(r) ==
    /\ pc[r] = "replace"
    /\ LET tmp == TmpOf(filename[r])
       IN  IF tmp \in DOMAIN dir
           THEN /\ dir' = (filename[r] :> dir[tmp]) @@ RemoveName(dir, tmp)
                /\ res' = [res EXCEPT ![r] = [ok |-> TRUE, size |-> size[r],
                                              sha |-> HexDigest(hashed[r])]]
           ELSE /\ dir' = dir
                /\ res' = [res EXCEPT ![r] = FailResult(size[r])]
    /\ pc' = [pc EXCEPT ![r] = "acquire"]
    /\ UNCHANGED << rows, force, workers, existing_names, data, seen_keys,
                    items, LOCK, filename, fd, size, hashed, fetched, pc_main,
                    total_items >>
    /\ UNCHANGED mvars

\* an exception while opening, reading or writing, or in the rename
Fail(r) ==
    /\ pc[r] \in {"open", "chunk", "replace"}
    /\ res' = [res EXCEPT ![r] = FailResult(size[r])]
    /\ pc' = [pc EXCEPT ![r] = "acquire"]
    /\ UNCHANGED << rows, force, workers, existing_names, dir, data, seen_keys,
                    items, LOCK, filename, fd, size, hashed, fetched, pc_main,
                    total_items >>
    /\ UNCHANGED mvars

(* ------------------------- with LOCK: append --------------------------- *)
Item(r) ==
    [park |-> rows[r].park, source_url |-> rows[r].url, filename |-> filename[r],
     size_bytes |-> res[r].size, sha256 |-> res[r].sha, download_ok |-> res[r].ok]

Acquire(r) ==
    /\ pc[r] = "acquire"
    /\ LOCK = 0
    /\ LOCK' = r
    /\ pc' = [pc EXCEPT ![r] = "append"]
    /\ UNCHANGED << rows, force, workers, existing_names, dir, data, seen_keys,
                    items, filename, res, fd, size, hashed, fetched, pc_main,
                    total_items >>
    /\ UNCHANGED mvars

\* an append that leaves LOCK held
AppendItemKeepsLock(r) ==
    /\ pc[r] = "append"
    /\ items' = Append(items, Item(r))
    /\ pc' = [pc EXCEPT ![r] = "done"]
    /\ UNCHANGED << rows, force, workers, existing_names, dir, data, seen_keys,
                    LOCK, filename, res, fd, size, hashed, fetched, pc_main,
                    total_items >>
    /\ UNCHANGED mvars

AppendItem(r) ==
    /\ pc[r] = "append"
    /\ items' = Append(items, Item(r))
    /\ LOCK' = 0
    /\ pc' = [pc EXCEPT ![r] = "done"]
    /\ UNCHANGED << rows, force, workers, existing_names, dir, data, seen_keys,
                    filename, res, fd, size, hashed, fetched, pc_main,
                    total_items >>
    /\ UNCHANGED mvars

(* ------------------------- build_index returns ------------------------- *)
\* the for loop has ended, or the pool's shutdown(wait=True) has returned
\* a pool shut down without waiting: every row submitted and started
PoolNotAwaited == \A r \in Idx : pc[r] # "idle"

PoolDrained == \A r \in Idx : pc[r] = "done"

Return ==
    /\ main_pc = "build"
    /\ pc_main = "running"
    /\ PoolDrained
    /\ total_items' = Len(items)
    /\ pc_main' = "returned"
    /\ UNCHANGED << rows, force, workers, existing_names, dir, data, seen_keys,
                    items, LOCK, pc, filename, res, fd, size, hashed, fetched >>
    /\ UNCHANGED mvars

Next ==
    \/ ReadCsv
    \/ \E r \in Idx : CheckSeen(r)
    \/ \E r \in Idx : AddSeen(r)
    \/ \E r \in Idx : Exists(r)
    \/ \E r \in Idx : Stat(r)
    \/ \E r \in Idx : Get(r)
    \/ \E r \in Idx : GetFail(r)
    \/ \E r \in Idx : Open(r)
    \/ \E r \in Idx : WriteChunk(r)
    \/ \E r \in Idx : Replace(r)
    \/ \E r \in Idx : Fail(r)
    \/ \E r \in Idx : Acquire(r)
    \/ \E r \in Idx : AppendItem(r)
    \/ Return
    \/ WriteJson

Spec == Init /\ [][Next]_vars

\* every fetch returns and the threads are scheduled: a step that can be
\* taken is eventually taken
FairSpec == Init /\ [][Next]_vars /\ WF_vars(Next)

(* ----------------------- the functions alone -------------------------- *)
SlugAlphabet == {"a", "B", "2", " ", "-", "_", "!", "mdash"}

RepTo(pat, n) == [k \in 1..n |-> pat[((k - 1) % Len(pat)) + 1]]

SlugInputs ==
    UNION { [1..n -> SlugAlphabet] : n \in 0..MaxStrLen }
    \cup { RepTo(pat, SlugMax + x) :
             pat \in UNION { [1..n -> SlugAlphabet] : n \in 1..MaxPat }, x \in 0..MaxExtra }

Park3 == <<"!">>

\* the names of a row with suffix up to MaxSuffix, and one unrelated name
ExistingChoices(park, url) ==
    SUBSET ( { Alt(Guess(park, url), i) : i \in 0..MaxSuffix }
             \cup { FileName(<<"z">>, <<"z">>, NoUrl, 0, "pdf") } )

Calls ==
    { [fn |-> "slugify", value |-> v, park |-> <<>>, url |-> NoUrl, existing |-> {}] :
        v \in SlugInputs }
    \cup UNION { { [fn |-> "secure_filename", value |-> <<>>, park |-> p, url |-> u,
                    existing |-> e] : e \in ExistingChoices(p, u) } :
                 p \in {Park1, Park3}, u \in {Url1, Url2} }

FnInit ==
    /\ call \in Calls
    /\ ret = NoRet
    /\ main_pc = "fn"
    /\ csv_fieldnames = Expected
    /\ json_file = OldJson
    /\ rows = <<>>
    /\ force = FALSE
    /\ workers = 1
    /\ existing_names = {}
    /\ dir = <<>>
    /\ data = <<>>
    /\ seen_keys = {}
    /\ items = <<>>
    /\ LOCK = 0
    /\ pc = <<>>
    /\ filename = <<>>
    /\ res = <<>>
    /\ fd = <<>>
    /\ size = <<>>
    /\ hashed = <<>>
    /\ fetched = <<>>
    /\ pc_main = "running"
    /\ total_items = 0

ApplySlugify ==
    /\ main_pc = "fn"
    /\ call.fn = "slugify"
    /\ ~ret.done
    /\ ret' = [done |-> TRUE, slug |-> slugify(call.value)]
    /\ UNCHANGED << rows, force, workers, existing_names, dir, data, seen_keys,
                    items, LOCK, pc, filename, res, fd, size, hashed, fetched,
                    pc_main, total_items, csv_fieldnames, main_pc, json_file,
                    call >>

\* secure_filename(park, url, set()) twice, then with the given set
ApplySecureFilename ==
    /\ main_pc = "fn"
    /\ call.fn = "secure_filename"
    /\ ~ret.done
    /\ ret' = [done |-> TRUE,
               first |-> secure_filename(call.park, call.url, {}),
               again |-> secure_filename(call.park, call.url, {}),
               name |-> secure_filename(call.park, call.url, call.existing)]
    /\ UNCHANGED << rows, force, workers, existing_names, dir, data, seen_keys,
                    items, LOCK, pc, filename, res, fd, size, hashed, fetched,
                    pc_main, total_items, csv_fieldnames, main_pc, json_file,
                    call >>

FnNext ==
    \/ ApplySlugify
    \/ ApplySecureFilename

SpecFn == FnInit /\ [][FnNext]_vars

(* ---------------------- the sequential result ------------------------- *)
Urls == { w.url : w \in RowUniverse }

\* What the for loop of build_index (workers <= 1) appends for rows rs, a
\* store listing ex, force flag f and a fixed fetch outcome o[url]: acc is
\* (seen keys, size of the file at each destination, entries so far).
RECURSIVE SeqRun(_, _, _, _, _, _)
SeqRun(rs, ex, f, o, i, acc) ==
    IF i > Len(rs) THEN acc.out
    ELSE
      LET park == rs[i].park
          url == rs[i].url
          fn == secure_filename(park, url, ex)
          entry(t) == [park |-> park, source_url |-> url, filename |-> fn,
                       size_bytes |-> t.size, sha256 |-> t.sha,
                       download_ok |-> t.ok]
      IN  IF <<park, url>> \in acc.seen
          THEN SeqRun(rs, ex, f, o, i + 1, acc)
          ELSE IF fn \in DOMAIN acc.files /\ ~f
          THEN SeqRun(rs, ex, f, o, i + 1,
                 [seen |-> acc.seen \cup {<<park, url>>},
                  files |-> acc.files,
                  out |-> Append(acc.out,
                            entry([ok |-> TRUE, size |-> acc.files[fn],
                                   sha |-> EmptyStr]))])
          ELSE IF o[url]
          THEN SeqRun(rs, ex, f, o, i + 1,
                 [seen |-> acc.seen \cup {<<park, url>>},
                  files |-> (fn :> NChunks) @@ acc.files,
                  out |-> Append(acc.out,
                            entry([ok |-> TRUE, size |-> NChunks,
                                   sha |-> HexDigest(Response(url))]))])
          ELSE SeqRun(rs, ex, f, o, i + 1,
                 [seen |-> acc.seen \cup {<<park, url>>},
                  files |-> acc.files,
                  out |-> Append(acc.out, entry(FailResult(0)))])

SeqItems(rs, ex, f, o) ==
    SeqRun(rs, ex, f, o, 1,
           [seen |-> {},
            files |-> [n \in ex |-> Len(InitContent(n))],
            out |-> <<>>])

(* ============================== claims ================================= *)
EntriesOf(park, url) ==
    { k \in 1..Len(items) : items[k].park = park /\ items[k].source_url = url }

FetchersOf(park, url) ==
    { q \in Idx : rows[q].park = park /\ rows[q].url = url /\ fetched[q] > 0 }

Returned == pc_main = "returned"

\* C1: a run without force over a store that already holds the document of
\* every input row fetches nothing and reports every entry download_ok.
C1_IdempotentRerun ==
    ( /\ Returned
      /\ ~force
      /\ \A r \in Idx : Guess(rows[r].park, rows[r].url) \in existing_names )
    => ( /\ \A r \in Idx : fetched[r] = 0
         /\ \A k \in 1..Len(items) : items[k].download_ok )

\* C2: no two entries of the catalog have the same filename.
C2_UniqueFileNames ==
    \A j, k \in 1..Len(items) : j # k => items[j].filename # items[k].filename

\* C3: a (park, url) pair never has more than one entry nor more than one
\* fetch, and has exactly one entry when build_index returns.
C3_DedupUnderConcurrency ==
    \A r \in Idx :
        /\ Cardinality(EntriesOf(rows[r].park, rows[r].url)) <= 1
        /\ Cardinality(FetchersOf(rows[r].park, rows[r].url)) <= 1
        /\ Returned => Cardinality(EntriesOf(rows[r].park, rows[r].url)) = 1

\* C4: a file at a final destination path always holds the complete body
\* of one response.
C4_AtomicFinalization ==
    \A n \in DOMAIN dir :
        n.ext = "pdf" => \E w \in RowUniverse : data[dir[n]] = Response(w.url)

Untouched(n) ==
    /\ n \in DOMAIN dir
    /\ dir[n] = InitInode(n)
    /\ data[dir[n]] = InitContent(n)

NamesReturned == \A r \in Idx : filename[r] # NoName => filename[r] \notin existing_names

\* C5 as stated: without force no file present at the start is overwritten,
\* truncated, renamed over or removed, and secure_filename never returns a
\* member of the existing-name set.
C5_NoSilentOverwrite_Original ==
    /\ ~force => \A n \in existing_names : Untouched(n)
    /\ NamesReturned

\* C5 as amended: without force no file present at the start other than a
\* '.part' temporary file is overwritten, truncated, renamed over or
\* removed, and secure_filename never returns a member of the existing-name
\* set.
C5_NoSilentOverwrite ==
    /\ ~force => \A n \in existing_names : n.ext = "pdf" => Untouched(n)
    /\ NamesReturned

\* a row whose first-choice name was taken at the start has been downloaded
C5_Witness ==
    \E r \in Idx :
        /\ ~force
        /\ Guess(rows[r].park, rows[r].url) \in existing_names
        /\ pc[r] = "done"
        /\ fetched[r] = 1
        /\ res[r].ok

\* C6: every entry with download_ok = false has size_bytes = 0 and
\* sha256 = "".
C6_FailedEntryIsBlank ==
    \A k \in 1..Len(items) :
        ~items[k].download_ok =>
            items[k].size_bytes = 0 /\ items[k].sha256 = EmptyStr

\* a fetch failed after chunks had been counted and its entry is recorded
C6_Witness ==
    \E r \in Idx :
        /\ pc[r] = "done"
        /\ fetched[r] = 1
        /\ size[r] > 0
        /\ ~res[r].ok
        /\ \E k \in 1..Len(items) : items[k] = Item(r)

\* C7: when build_index returns, no file exists at the destination path of
\* an entry with download_ok = false.
C7_FailedEntryLeavesNoFile ==
    Returned =>
        \A k \in 1..Len(items) :
            ~items[k].download_ok => items[k].filename \notin DOMAIN dir

\* C8: build_index returns a catalog with exactly one entry for each
\* distinct (park, url) row, whatever fetches failed, and an entry is
\* marked download_ok = false exactly when its row's fetch failed.
C8_FailuresNeverAbort ==
    Returned =>
        /\ Len(items) = Cardinality({ Key(r) : r \in Idx })
        /\ \A r \in Idx : \E k \in 1..Len(items) :
              /\ items[k].park = rows[r].park
              /\ items[k].source_url = rows[r].url
        /\ \A r \in Idx : filename[r] # NoName =>
              \E k \in 1..Len(items) : items[k] = Item(r)

\* C9: once build_index has returned, every process_row call has finished
\* and total_items equals the length of items.
C9_CompletionBarrier ==
    Returned =>
        /\ \A r \in Idx : pc[r] = "done"
        /\ total_items = Len(items)

\* a pooled run returned a catalog of at least two entries
C9_Witness == Returned /\ workers > 1 /\ Len(items) >= 2

\* C10: a step fetches a (park, url) row only if no fetch was made for
\* that row earlier in the run.
C10_NoRetries ==
    [][ \A r \in Idx :
          fetched'[r] > fetched[r] =>
              \A q \in Idx : Key(q) = Key(r) => fetched[q] = 0 ]_vars

\* C11: when the CSV header lacks a required column, the run ends in
\* read_csv_rows: no row is started or fetched, build_index does not return
\* and the catalog file is left as it was.
C11_FatalHeaderError ==
    ~(Expected \subseteq csv_fieldnames) =>
        /\ main_pc \in {"read", "raised"}
        /\ \A r \in Idx : pc[r] = "idle" /\ fetched[r] = 0
        /\ pc_main = "running"
        /\ json_file = OldJson

\* read_csv_rows has raised on a header without the pdf_url column
C11_Witness == main_pc = "raised" /\ "pdf_url" \notin csv_fieldnames

\* C12: secure_filename returns the same name n0 on two calls with an empty
\* set; with a set that contains n0 it returns n0 with the smallest suffix
\* i >= 1 whose name is not in the set; the name returned is never in the
\* set.
C12_SecureFilename ==
    (call.fn = "secure_filename" /\ ret.done) =>
        /\ ret.first = ret.again
        /\ ret.name \notin call.existing
        /\ ret.first \in call.existing =>
              /\ ret.name # ret.first
              /\ ret.name.i >= 1
              /\ ret.name = [ret.first EXCEPT !.i = ret.name.i]
              /\ \A l \in 1..(ret.name.i - 1) :
                    [ret.first EXCEPT !.i = l] \in call.existing

\* the first name and its first suffixed name were taken
C12_Witness ==
    /\ call.fn = "secure_filename"
    /\ ret.done
    /\ ret.first \in call.existing
    /\ [ret.first EXCEPT !.i = 1] \in call.existing
    /\ ret.name.i >= 2

LowercaseWord == { c \in WordChars : Lower(c) = c }

\* C13: slugify returns a non-empty string of at most 80 characters, all of
\* them lowercase word characters or hyphens, with no two hyphens adjacent.
C13_SlugShape ==
    (call.fn = "slugify" /\ ret.done) =>
        /\ Len(ret.slug) >= 1
        /\ Len(ret.slug) <= 80
        /\ \A k \in 1..Len(ret.slug) : ret.slug[k] \in LowercaseWord \cup {"-"}
        /\ \A k \in 1..(Len(ret.slug) - 1) :
              ~(ret.slug[k] = "-" /\ ret.slug[k + 1] = "-")

\* an input longer than the limit was cut to the limit
C13_Witness ==
    /\ call.fn = "slugify"
    /\ ret.done
    /\ Len(call.value) > SlugMax
    /\ Len(ret.slug) = SlugMax

\* C14: a worker touches items and existing_names only while it holds
\* LOCK, at most one worker is in the critical section, and no worker holds
\* LOCK during the steps of download_one.
C14_LockDiscipline ==
    [][ /\ items' # items => \E r \in Idx : LOCK = r /\ pc[r] = "append"
        /\ \A r \in Idx : filename'[r] # filename[r] => LOCK = r
        /\ Cardinality({ r \in Idx : pc[r] = "append" }) <= 1
        /\ \A r \in Idx :
              LOCK = r => pc[r] \notin {"get", "open", "chunk", "replace"} ]_vars

\* C15: a row that passed the dedup test skips the fetch exactly when its
\* destination exists at the check and force is not set; its entry is then
\* (true, size of the file on disk, ""); otherwise download_one is called
\* exactly once and the entry carries its result.
C15_AlreadySatisfied ==
    [][ \A r \in Idx :
          /\ (pc[r] = "exists" /\ pc'[r] # "exists") =>
                pc'[r] = (IF filename[r] \in DOMAIN dir /\ ~force THEN "stat" ELSE "get")
          /\ (pc[r] = "stat" /\ pc'[r] # "stat") =>
                /\ fetched'[r] = 0
                /\ res'[r] = [ok |-> TRUE,
                              size |-> Len(data[dir[filename[r]]]),
                              sha |-> EmptyStr]
          /\ (pc[r] = "get" /\ pc'[r] # "get") => fetched[r] = 0 /\ fetched'[r] = 1
          /\ (pc[r] = "append" /\ pc'[r] = "done") =>
                /\ items' = Append(items,
                      [park |-> rows[r].park, source_url |-> rows[r].url,
                       filename |-> filename[r], size_bytes |-> res[r].size,
                       sha256 |-> res[r].sha, download_ok |-> res[r].ok])
                /\ fetched[r] = 0 => res[r].ok /\ res[r].sha = EmptyStr /\ ~force
                /\ fetched[r] = 1 =>
                      \/ res[r] = [ok |-> TRUE, size |-> NChunks,
                                   sha |-> HexDigest(Response(rows[r].url))]
                      \/ res[r] = [ok |-> FALSE, size |-> 0, sha |-> EmptyStr] ]_vars

\* a row found its destination on disk and was recorded without a fetch
C15_Witness ==
    \E r \in Idx :
        /\ pc[r] = "done"
        /\ filename[r] # NoName
        /\ fetched[r] = 0
        /\ \E k \in 1..Len(items) :
              /\ items[k].park = rows[r].park
              /\ items[k].filename = filename[r]
              /\ items[k].sha256 = EmptyStr
              /\ items[k].size_bytes = NChunks

\* C16: when build_index returns, every entry with download_ok = true and a
\* non-empty sha256 has a file at its path whose length is size_bytes and
\* whose content hashes to sha256.
C16_HashedEntryMatchesFile ==
    Returned =>
        \A k \in 1..Len(items) :
            (items[k].download_ok /\ items[k].sha256 # EmptyStr) =>
                /\ items[k].filename \in DOMAIN dir
                /\ Len(data[dir[items[k].filename]]) = items[k].size_bytes
                /\ HexDigest(data[dir[items[k].filename]]) = items[k].sha256

\* the fetches made in this run agree with the fixed outcome o per URL
OutcomeIs(o) ==
    \A r \in Idx :
        (fetched[r] > 0 /\ pc[r] \in {"acquire", "append", "done"}) =>
            res[r].ok = o[rows[r].url]

SetOf(seq) == { seq[k] : k \in 1..Len(seq) }

\* C17: with workers > 1 the set of entries returned equals the set the
\* sequential run returns for the same rows, store, force flag and fetch
\* outcome per URL.
C17_WorkerCountIrrelevant ==
    (Returned /\ workers > 1) =>
        \A o \in [Urls -> BOOLEAN] :
            OutcomeIs(o) =>
                SetOf(items) = SetOf(SeqItems(rows, existing_names, force, o))

FirstIdx(it) ==
    CHOOSE r \in Idx :
        /\ rows[r].park = it.park /\ rows[r].url = it.source_url
        /\ \A q \in 1..(r - 1) :
              ~(rows[q].park = it.park /\ rows[q].url = it.source_url)

\* C18: with workers <= 1 a row is started only when every earlier row is
\* finished, and the entries are in the input order of the first occurrence
\* of their (park, url) pair, one per pair when build_index returns.
C18_SequentialOrder ==
    workers <= 1 =>
        /\ Cardinality(Active) <= 1
        /\ \A r \in Idx : pc[r] # "idle" => \A q \in 1..(r - 1) : pc[q] = "done"
        /\ \A j, k \in 1..Len(items) :
              j < k => FirstIdx(items[j]) < FirstIdx(items[k])
        /\ Returned => Len(items) = Cardinality({ Key(r) : r \in Idx })

\* a sequential run returned two entries
C18_Witness ==
    /\ workers = 1
    /\ Returned
    /\ Len(items) = 2
    /\ items[1].park = rows[1].park
    /\ items[2].park = rows[2].park

\* C19: under fair scheduling every run ends: main has written the catalog
\* or read_csv_rows has raised.
C19_Termination == <>(main_pc \in {"done", "raised"})

\* a pooled run has ended after a suffix search in secure_filename
C19_Witness ==
    /\ main_pc = "done"
    /\ workers > 1
    /\ \A r \in Idx : pc[r] = "done"
    /\ \E r \in Idx : filename[r].i >= 1

====
